---- MODULE Spec2Model ----
(***************************************************************************)
(* Model of the transcoding pipeline of Adaptive-Bitrate-Streaming:        *)
(*   pkg/processing/worker_pool.go  WorkerPool, Worker                     *)
(*   pkg/processing/service.go      ProcessingService.ProcessVideo         *)
(*   pkg/processing (helpers)       defineQualityTargets,                  *)
(*                                  generateHLSStreamWorker, uploadHLSToS3,*)
(*                                  generateMasterPlaylist                 *)
(*   pkg/upload/service.go          Service.processVideoBackground         *)
(* Channels are sequences with a capacity, goroutines are processes with a *)
(* program counter, a select statement is a choice among its ready cases.  *)
(***************************************************************************)
EXTENDS Integers, Sequences, FiniteSets, TLC

\* ------------------------------------------------------------------ bounds
\* Pools of 1..MaxWorkers workers are explored (NewWorkerPool's workerCount).
MaxWorkers == 2
\* ffmpeg writes playlist.m3u8 and 1..MaxSegments segment files per rendition.
MaxSegments == 1

\* The ladder is computed for sources whose width and height lie within
\* MaxDelta of each base value of LadderWidths and LadderHeights.
MaxDelta == 1
\* Duration of every source, in seconds: a rendition takes up its bitrate
\* times this duration.
SourceSeconds == 160
\* Number of upload requests the upload service handles.
MaxUploads == 2
MaxProfiles == 3
MaxStem == 1
StopWorkers == 1

\* --------------------------------------------------------------- constants
\* Number of "/"-separated parts of the key UploadVideo builds:
\* adaptive-bitrate-streaming-videos/<user>/<video>/original/<file>
s3KeyParts == 5
\* ProcessVideo rejects keys with fewer parts than this.
MinKeyParts == 4
\* UploadVideo's size limit: 500*1024*1024
MaxUploadBytes == 524288000
\* NewProcessingService: NewWorkerPool(4, ps)
PoolSize == 4

\* The objects a video record may point at: what the prober reports of each
\* (width, height) and its size in bytes. Ladders of 1, 2 and 3 jobs.
Sources ==
    { [Width |-> 320,  Height |-> 200, Bytes |-> 25000000],
      [Width |-> 640,  Height |-> 360, Bytes |-> 50000000],
      [Width |-> 1280, Height |-> 720, Bytes |-> 100000000] }

\* Widths and heights the ladder is computed for: the base values and their
\* neighbours, so that odd values and both sides of every tier occur.
Near(S, delta) == { v + e : v \in S, e \in (0 - delta)..delta }

LadderWidths  == Near({320, 490, 640, 1280, 1920}, MaxDelta)
LadderHeights == Near({120, 240, 360, 480, 720, 1080, 1440}, MaxDelta)

LadderSources ==
    { [Width |-> w, Height |-> h] : w \in LadderWidths, h \in LadderHeights }

\* ------------------------------------------------- Quality Ladder Policy
\* A bitrate string such as "500k": its leading text and its last character.
\* digits is the number the text denotes, or -1 when the text is no number.
Kbps(n) == [digits |-> n, suffix |-> "k"]

\* parseInt: strings.TrimSuffix "k", then "K", strconv.Atoi, 1000 on error
parseInt(s) ==
    IF s.suffix \in {"k", "K", ""} /\ s.digits >= 0 THEN s.digits ELSE 1000

baseQualities ==
    << [name |-> "240p",  height |-> 240,  bitrate |-> Kbps(500)],
       [name |-> "480p",  height |-> 480,  bitrate |-> Kbps(1500)],
       [name |-> "720p",  height |-> 720,  bitrate |-> Kbps(3000)],
       [name |-> "1080p", height |-> 1080, bitrate |-> Kbps(5000)] >>

\* float64 arithmetic, for positive integers below 2^20.
\* A float64 has MantissaBits explicit mantissa bits.
MantissaBits == 52

RECURSIVE Pow2(_)
Pow2(n) == IF n = 0 THEN 1 ELSE 2 * Pow2(n - 1)

\* the largest a with d * 2^a <= n, for n >= d
RECURSIVE FloorLog2(_, _)
FloorLog2(n, d) == IF 2 * d <= n THEN 1 + FloorLog2(n, 2 * d) ELSE 0

\* the least k with n * 2^k >= d
RECURSIVE CeilLog2(_, _)
CeilLog2(n, d) == IF n >= d THEN 0 ELSE 1 + CeilLog2(2 * n, d)

\* the binary exponent of n / d: 2^a <= n / d < 2^(a+1)
Exponent(n, d) == IF n >= d THEN FloorLog2(n, d) ELSE 0 - CeilLog2(n, d)

\* (r * 2^n) mod d
RECURSIVE ShiftMod(_, _, _)
ShiftMod(r, n, d) == IF n = 0 THEN r ELSE ShiftMod((2 * r) % d, n - 1, d)

\* int(float64(h) * (float64(W) / float64(H))).
\* aspectRatio is W / H rounded to nearest at 53 bits; rem is what the
\* rounding cut off, in units of 2^(a - MantissaBits) / H. The product is
\* rounded to nearest again. A quotient h * W / H that is no integer lies
\* at least 1 / H from the next integer, far more than both roundings, so
\* the conversion truncates to the exact floor. When h * W / H is an
\* integer q, the product is below q exactly when aspectRatio was rounded
\* down by more than half the spacing of the float64 values below q, and
\* the conversion then yields q - 1.
Float64Scale(h, W, H) ==
    LET q        == (h * W) \div H
        a        == Exponent(W, H)
        rem      == ShiftMod(W % H, MantissaBits - a, H)
        p        == FloorLog2(q, 1)
        halfStep == IF q = Pow2(p) THEN p - a - 2 ELSE p - a - 1
    IN  IF (h * W) % H # 0 THEN q
        ELSE IF rem = 0 \/ 2 * rem > H THEN q
        ELSE IF h * rem > H * Pow2(halfStep) THEN q - 1
        ELSE q

\* mutant of ScaledWidth: an odd width is rounded up to the next even value
ScaledWidth_RoundsUp(h, metadata) ==
    LET w == Float64Scale(h, metadata.Width, metadata.Height)
    IN  IF w % 2 # 0 THEN w + 1 ELSE w

\* width := int(float64(base.height) * aspectRatio); if width%2 != 0 { width-- }
ScaledWidth(h, metadata) ==
    LET w == Float64Scale(h, metadata.Width, metadata.Height)
    IN  IF w % 2 # 0 THEN w - 1 ELSE w

EvenHeight(h) == IF h % 2 # 0 THEN h - 1 ELSE h

\* mutant of TierFits: a tier as high as the source is left out
TierFits_Strict(base, metadata) == base.height < metadata.Height

\* if base.height <= metadata.Height
TierFits(base, metadata) == base.height <= metadata.Height

RECURSIVE TierQualities(_, _)
TierQualities(i, metadata) ==
    IF i > Len(baseQualities) THEN << >>
    ELSE LET base == baseQualities[i]
             rest == TierQualities(i + 1, metadata)
         IN  IF TierFits(base, metadata)
             THEN << [Name    |-> base.name,
                      Height  |-> EvenHeight(base.height),
                      Width   |-> ScaledWidth(base.height, metadata),
                      Bitrate |-> base.bitrate] >> \o rest
             ELSE rest

\* the "original" rendition: the source's own width and height at 8000k
Original(metadata) ==
    [Name    |-> "original",
     Height  |-> metadata.Height,
     Width   |-> metadata.Width,
     Bitrate |-> Kbps(8000)]

\* mutant of defineQualityTargets: no "original" rendition is ever appended
defineQualityTargets_NoOriginal(metadata) == TierQualities(1, metadata)

\* mutant of defineQualityTargets: the "original" rendition is put first
defineQualityTargets_OriginalFirst(metadata) ==
    LET tiers == TierQualities(1, metadata)
        originalIncluded ==
            \E i \in 1..Len(tiers) : tiers[i].Height = metadata.Height
    IN  IF originalIncluded THEN tiers
        ELSE << Original(metadata) >> \o tiers

\* mutant of defineQualityTargets: the "original" rendition is appended
\* without looking for a tier of the source's height
defineQualityTargets_AlwaysOriginal(metadata) ==
    Append(TierQualities(1, metadata), Original(metadata))

defineQualityTargets(metadata) ==
    LET tiers == TierQualities(1, metadata)
        originalIncluded ==
            \E i \in 1..Len(tiers) : tiers[i].Height = metadata.Height
    IN  IF originalIncluded THEN tiers
        ELSE Append(tiers, Original(metadata))

\* ------------------------------------------------------------------ state
VARIABLES
    workerCount,        \* wp.workerCount
    workers,            \* IDs of the worker goroutines spawned by Start
    wstate,             \* worker -> "idle" | "processing" | "sending" | "exited"
    wjob,               \* worker -> job it holds (0: none)
    wres,               \* worker -> Result it is about to send
    jobQueue,           \* wp.jobQueue, buffered channel of jobs (job IDs)
    resultQueue,        \* wp.resultQueue, buffered channel of Results
    stopPc,             \* position of Stop: "none","cancelled","jobsClosed","stopped"
    opc,                \* position of ProcessVideo
    qualities,          \* the ladder of the video
    nextJob,            \* index of the next quality to submit
    expectedJobs,
    completedJobs,
    processedQualities, \* job IDs of the renditions appended, in order
    downloaded,         \* the object downloadFromS3 copied to originalPath
    processDir,         \* the download directory that holds originalPath
    totalProcessedSize,
    timedOut,           \* the 15 minute timer has fired and was received
    ctxCancelled,       \* the caller's context is done
    retErr,             \* error returned by ProcessVideo ("" : none)
    outcome,            \* ProcessingResult returned by ProcessVideo
    stored,             \* job -> how much of the rendition is in S3:
                        \*        "none", "partial" or "all" of its files
    master,             \* master.m3u8 in S3: whether uploaded, and its variant blocks
    bgpc,               \* position of processVideoBackground
    dbStatus,           \* videos.status of the video record
    statusLog,          \* every status written with UpdateVideo, in order
    submitted,          \* history: job IDs accepted by the job queue
    dropped,            \* history: job IDs given up by SubmitJob
    emitted,            \* history: job -> Results placed on the result stream
    observed,           \* history: (JobID, Success) of the Results the
                        \*          aggregation loop received
    probe,              \* ladder computation: the metadata given to
                        \*          defineQualityTargets
    ladder,             \* ladder computation: the ladder returned (<< >>: none yet)
    ladderPc,           \* ladder computation: "idle", "probed" or "computed"
    shJobQueue,         \* shared pool: wp.jobQueue, jobs of both videos
    shResultQueue,      \* shared pool: wp.resultQueue
    shHeld,             \* shared pool: worker -> the job it is processing
    shPc,               \* shared pool: video -> position of its ProcessVideo
    shNext,             \* shared pool: video -> index of its next quality
    shExpected,         \* shared pool: video -> expectedJobs
    shCompleted,        \* shared pool: video -> completedJobs
    shConsumed,         \* shared pool: video -> Results its loop received
    upRequests,         \* upload service: the requests handled, in order
    upResponses,        \* upload service: the UploadResponse of each request
    upObjects,          \* upload service: videos whose original is in S3
    upRecords,          \* upload service: video -> status of its record
    upBg,               \* upload service: video -> position of its
                        \*          processVideoBackground goroutine
    upPools,            \* upload service: worker pools created so far
    upLiveWorkers,      \* upload service: worker goroutines running
    abrBandwidth,       \* ChooseBitrate: the bandwidth argument
    abrProfiles,        \* ChooseBitrate: the profiles argument
    abrChosen,          \* ChooseBitrate: the value returned
    abrPc,              \* ChooseBitrate: "ready" or "done"
    vfContentType,      \* isVideoFile: the contentType argument
    vfFilename,         \* isVideoFile: the filename argument, as characters
    vfAccepted,         \* isVideoFile: the value returned
    vfPc                \* isVideoFile: "ready" or "done"

vars == << workerCount, workers, wstate, wjob, wres, jobQueue, resultQueue,
           stopPc, opc, qualities, nextJob, expectedJobs, completedJobs,
           processedQualities, downloaded, processDir, totalProcessedSize,
           timedOut, ctxCancelled, retErr, outcome,
           stored, master, bgpc, dbStatus, statusLog,
           submitted, dropped, emitted, observed, probe, ladder, ladderPc,
           shJobQueue, shResultQueue, shHeld, shPc, shNext, shExpected,
           shCompleted, shConsumed,
           upRequests, upResponses, upObjects, upRecords, upBg, upPools,
           upLiveWorkers, abrBandwidth, abrProfiles, abrChosen, abrPc,
           vfContentType, vfFilename, vfAccepted, vfPc >>

poolVars  == << workerCount, workers, wstate, wjob, wres, jobQueue,
                resultQueue, stopPc >>
orchVars  == << opc, qualities, nextJob, expectedJobs, completedJobs,
                processedQualities, downloaded, processDir,
                totalProcessedSize, timedOut, retErr, outcome >>
storeVars == << stored, master >>
bgVars    == << bgpc, dbStatus, statusLog >>
histVars  == << submitted, dropped, emitted, observed >>
ladderVars == << probe, ladder, ladderPc >>
sharedVars == << shJobQueue, shResultQueue, shHeld, shPc, shNext, shExpected,
                 shCompleted, shConsumed >>
uploadVars == << upRequests, upResponses, upObjects, upRecords, upBg, upPools,
                 upLiveWorkers >>
abrVars   == << abrBandwidth, abrProfiles, abrChosen, abrPc >>
fileVars  == << vfContentType, vfFilename, vfAccepted, vfPc >>
pureVars  == << ladderVars, sharedVars, uploadVars, abrVars, fileVars >>
pipeVars  == << poolVars, orchVars, ctxCancelled, storeVars, bgVars, histVars >>

NoProbe == [Width |-> 0, Height |-> 0]

NoManifest == [uploaded |-> FALSE, variants |-> << >>]
NoFile     == [Width |-> 0, Height |-> 0, Bytes |-> 0]
NoRatio    == [num |-> 0, den |-> 1]
NoOutcome  == [Status |-> "", Qualities |-> << >>, MasterPlaylistURL |-> "",
               OriginalSize |-> 0, TotalSize |-> 0, CompressionRatio |-> NoRatio]
ZeroResult == [JobID |-> 0, Success |-> FALSE, Error |-> "", OutputSize |-> 0]
MasterURL  == "https://adaptive-bitrate-streaming-videos.s3.ap-south-1.amazonaws.com/.../hls/master.m3u8"

JobIDs == 1..5

\* make(chan ProcessingJob, workerCount*2), make(chan WorkerResult, workerCount*2)
QueueCapacity(n) == n * 2

\* a panic (SubmitJob sending on the closed job queue) ends the process:
\* no goroutine runs after it
Running == opc # "Panicked"

\* wp.ctx is done once Stop has called wp.cancel()
poolCancelled == stopPc # "none"
jobsClosed    == stopPc \in {"jobsClosed", "stopped"}
resultsClosed == stopPc = "stopped"

\* ------------------------------------------------------------------- Init
\* State before processVideoBackground runs: the upload stored the video
\* record with status "uploaded"; no service, pool or worker exists yet.
PipelineInit ==
    /\ workerCount \in 1..MaxWorkers
    /\ workers = {}
    /\ wstate = << >>
    /\ wjob = << >>
    /\ wres = << >>
    /\ jobQueue = << >>
    /\ resultQueue = << >>
    /\ stopPc = "none"
    /\ opc = "NotStarted"
    /\ qualities = << >>
    /\ nextJob = 1
    /\ expectedJobs = 0
    /\ completedJobs = 0
    /\ processedQualities = << >>
    /\ downloaded = NoFile
    /\ processDir = "absent"
    /\ totalProcessedSize = 0
    /\ timedOut = FALSE
    /\ ctxCancelled = FALSE
    /\ retErr = ""
    /\ outcome = NoOutcome
    /\ stored = [j \in JobIDs |-> "none"]
    /\ master = NoManifest
    /\ bgpc = "start"
    /\ dbStatus = "uploaded"
    /\ statusLog = << >>
    /\ submitted = {}
    /\ dropped = {}
    /\ emitted = [j \in JobIDs |-> 0]
    /\ observed = {}

\* no ladder computation going on
LadderIdle ==
    /\ probe = NoProbe
    /\ ladder = << >>
    /\ ladderPc = "idle"

\* no second ProcessingService with two videos on one pool
SharedIdle ==
    /\ shJobQueue = << >>
    /\ shResultQueue = << >>
    /\ shHeld = << >>
    /\ shPc = << >>
    /\ shNext = << >>
    /\ shExpected = << >>
    /\ shCompleted = << >>
    /\ shConsumed = << >>

\* the upload service has handled no request
UploadIdle ==
    /\ upRequests = << >>
    /\ upResponses = << >>
    /\ upObjects = {}
    /\ upRecords = << >>
    /\ upBg = << >>
    /\ upPools = 0
    /\ upLiveWorkers = 0

\* no bitrate selection going on
AbrIdle ==
    /\ abrBandwidth = 0
    /\ abrProfiles = << >>
    /\ abrChosen = 0
    /\ abrPc = "idle"

\* no upload being screened
FileIdle ==
    /\ vfContentType = ""
    /\ vfFilename = << >>
    /\ vfAccepted = FALSE
    /\ vfPc = "idle"

\* the pipeline of one video, and nothing else going on
Init ==
    /\ PipelineInit
    /\ LadderIdle
    /\ SharedIdle
    /\ UploadIdle
    /\ AbrIdle
    /\ FileIdle

\* ------------------------------------------------------------ Worker Pool
\* mutant of Start: the loop bound off by one (i <= wp.workerCount)
Start_OffByOne(n) == 1..(n + 1)

\* WorkerPool.Start: for i := 0; i < wp.workerCount; i++ { go worker.start }
Start(n) == 1..n

\* one run of generateHLSStreamWorker as the environment lets it go:
\* mkdir and ffmpeg succeed or fail, ffmpeg leaves nfiles files (the playlist
\* and the segments), and the upload of file number failAt fails (0: none)
Runs ==
    { [mkdirOK |-> FALSE, ffmpegOK |-> FALSE, nfiles |-> 0, failAt |-> 0],
      [mkdirOK |-> TRUE,  ffmpegOK |-> FALSE, nfiles |-> 0, failAt |-> 0] }
    \cup UNION { { [mkdirOK |-> TRUE, ffmpegOK |-> TRUE, nfiles |-> n, failAt |-> k] :
                    k \in 0..n } : n \in { m + 1 : m \in 1..MaxSegments } }

\* how much of a rendition is in the bucket, from the number of files put
Coverage(put, nfiles) ==
    IF put = 0 THEN "none" ELSE IF put < nfiles THEN "partial" ELSE "all"

\* mutant of uploadHLSToS3: a failed upload is skipped instead of returned
uploadHLSToS3_IgnoreError(run) ==
    IF run.failAt \in 1..run.nfiles
    THEN [err |-> "", put |-> run.nfiles - 1]
    ELSE [err |-> "", put |-> run.nfiles]

\* uploadHLSToS3: uploads the files in directory order and returns at the
\* first failed upload; the files before it stay in the bucket
uploadHLSToS3(run) ==
    IF run.failAt \in 1..run.nfiles
    THEN [err |-> "failed to upload", put |-> run.failAt - 1]
    ELSE [err |-> "", put |-> run.nfiles]

generateHLSStreamWorker(run) ==
    IF ~run.mkdirOK
    THEN [err |-> "failed to create quality directory", stored |-> "none"]
    ELSE IF ~run.ffmpegOK
    THEN [err |-> "ffmpeg failed", stored |-> "none"]
    ELSE LET up == uploadHLSToS3(run)
         IN  [err |-> up.err, stored |-> Coverage(up.put, run.nfiles)]

\* calculateHLSOutput: the total size of the files ffmpeg wrote for a
\* rendition, taken to be its bitrate (kbit/s, 125 bytes per kbit) times the
\* duration of the source
calculateHLSOutput(quality) == parseInt(quality.Bitrate) * 125 * SourceSeconds

\* Worker.processJob: result.OutputSize is set on success only
processJob(job, run) ==
    LET r == generateHLSStreamWorker(run)
    IN  IF r.err # ""
        THEN [JobID |-> job, Success |-> FALSE, Error |-> r.err, OutputSize |-> 0]
        ELSE [JobID |-> job, Success |-> TRUE,  Error |-> "",
              OutputSize |-> calculateHLSOutput(qualities[job])]

\* Worker.start, case job, ok := <-w.jobQueue with ok = true
WorkerTake(w) ==
    /\ Running
    /\ w \in workers
    /\ wstate[w] = "idle"
    /\ jobQueue # << >>
    /\ wstate' = [wstate EXCEPT ![w] = "processing"]
    /\ wjob' = [wjob EXCEPT ![w] = Head(jobQueue)]
    /\ jobQueue' = Tail(jobQueue)
    /\ UNCHANGED << workerCount, workers, wres, resultQueue, stopPc >>
    /\ UNCHANGED << orchVars, ctxCancelled, storeVars, bgVars, histVars >>
    /\ UNCHANGED pureVars

\* Worker.start, case job, ok := <-w.jobQueue with ok = false: return
WorkerQueueClosed(w) ==
    /\ Running
    /\ w \in workers
    /\ wstate[w] = "idle"
    /\ jobQueue = << >>
    /\ jobsClosed
    /\ wstate' = [wstate EXCEPT ![w] = "exited"]
    /\ UNCHANGED << workerCount, workers, wjob, wres, jobQueue, resultQueue, stopPc >>
    /\ UNCHANGED << orchVars, ctxCancelled, storeVars, bgVars, histVars >>
    /\ UNCHANGED pureVars

\* Worker.start, outer case <-w.ctx.Done(): return
WorkerCtxDone(w) ==
    /\ Running
    /\ w \in workers
    /\ wstate[w] = "idle"
    /\ poolCancelled
    /\ wstate' = [wstate EXCEPT ![w] = "exited"]
    /\ UNCHANGED << workerCount, workers, wjob, wres, jobQueue, resultQueue, stopPc >>
    /\ UNCHANGED << orchVars, ctxCancelled, storeVars, bgVars, histVars >>
    /\ UNCHANGED pureVars

\* Worker.start, result := w.processJob(job)
WorkerProcess(w) ==
    /\ Running
    /\ w \in workers
    /\ wstate[w] = "processing"
    /\ \E run \in Runs :
         LET r == generateHLSStreamWorker(run)
         IN  /\ wres' = [wres EXCEPT ![w] = processJob(wjob[w], run)]
             /\ stored' = [stored EXCEPT ![wjob[w]] = r.stored]
    /\ wstate' = [wstate EXCEPT ![w] = "sending"]
    /\ UNCHANGED << workerCount, workers, wjob, jobQueue, resultQueue, stopPc >>
    /\ UNCHANGED << orchVars, ctxCancelled, master, bgVars, histVars >>
    /\ UNCHANGED pureVars

\* mutant of AfterSend: the worker returns after a failed job
AfterSend_ExitOnFailure(res) == IF res.Success THEN "idle" ELSE "exited"

\* where the worker goes after it has delivered a Result: back to the select
AfterSend(res) == "idle"

\* mutant of WorkerSend: the Result of a failed job is not sent
WorkerSend_DropsFailed(w) ==
    /\ Running
    /\ w \in workers
    /\ wstate[w] = "sending"
    /\ Len(resultQueue) < QueueCapacity(workerCount)
    /\ resultQueue' = IF wres[w].Success THEN Append(resultQueue, wres[w])
                      ELSE resultQueue
    /\ emitted' = IF wres[w].Success
                  THEN [emitted EXCEPT ![wres[w].JobID] = @ + 1] ELSE emitted
    /\ wstate' = [wstate EXCEPT ![w] = "idle"]
    /\ wjob' = [wjob EXCEPT ![w] = 0]
    /\ wres' = [wres EXCEPT ![w] = ZeroResult]
    /\ UNCHANGED << workerCount, workers, jobQueue, stopPc >>
    /\ UNCHANGED << orchVars, ctxCancelled, storeVars, bgVars,
                    submitted, dropped, observed >>
    /\ UNCHANGED pureVars

\* Worker.start, case w.resultQueue <- result
WorkerSend(w) ==
    /\ Running
    /\ w \in workers
    /\ wstate[w] = "sending"
    /\ Len(resultQueue) < QueueCapacity(workerCount)
    /\ resultQueue' = Append(resultQueue, wres[w])
    /\ emitted' = [emitted EXCEPT ![wres[w].JobID] = @ + 1]
    /\ wstate' = [wstate EXCEPT ![w] = AfterSend(wres[w])]
    /\ wjob' = [wjob EXCEPT ![w] = 0]
    /\ wres' = [wres EXCEPT ![w] = ZeroResult]
    /\ UNCHANGED << workerCount, workers, jobQueue, stopPc >>
    /\ UNCHANGED << orchVars, ctxCancelled, storeVars, bgVars,
                    submitted, dropped, observed >>
    /\ UNCHANGED pureVars

\* mutant of WorkerSendCancelled: the send of the Result has no
\* case <-w.ctx.Done(), the worker can only send
WorkerSendCancelled_NoCase(w) ==
    /\ w \in workers
    /\ FALSE
    /\ UNCHANGED vars

\* Worker.start, inner case <-w.ctx.Done(): return (the Result is discarded)
WorkerSendCancelled(w) ==
    /\ Running
    /\ w \in workers
    /\ wstate[w] = "sending"
    /\ poolCancelled
    /\ wstate' = [wstate EXCEPT ![w] = "exited"]
    /\ wjob' = [wjob EXCEPT ![w] = 0]
    /\ wres' = [wres EXCEPT ![w] = ZeroResult]
    /\ UNCHANGED << workerCount, workers, jobQueue, resultQueue, stopPc >>
    /\ UNCHANGED << orchVars, ctxCancelled, storeVars, bgVars, histVars >>
    /\ UNCHANGED pureVars

\* WorkerPool.Stop: wp.cancel()
StopCancel ==
    /\ Running
    /\ opc # "NotStarted"
    /\ stopPc = "none"
    /\ stopPc' = "cancelled"
    /\ UNCHANGED << workerCount, workers, wstate, wjob, wres, jobQueue, resultQueue >>
    /\ UNCHANGED << orchVars, ctxCancelled, storeVars, bgVars, histVars >>
    /\ UNCHANGED pureVars

\* WorkerPool.Stop: close(wp.jobQueue)
StopCloseJobs ==
    /\ Running
    /\ stopPc = "cancelled"
    /\ stopPc' = "jobsClosed"
    /\ UNCHANGED << workerCount, workers, wstate, wjob, wres, jobQueue, resultQueue >>
    /\ UNCHANGED << orchVars, ctxCancelled, storeVars, bgVars, histVars >>
    /\ UNCHANGED pureVars

\* WorkerPool.Stop: wp.wg.Wait(); close(wp.resultQueue)
StopCloseResults ==
    /\ Running
    /\ stopPc = "jobsClosed"
    /\ \A w \in workers : wstate[w] = "exited"
    /\ stopPc' = "stopped"
    /\ UNCHANGED << workerCount, workers, wstate, wjob, wres, jobQueue, resultQueue >>
    /\ UNCHANGED << orchVars, ctxCancelled, storeVars, bgVars, histVars >>
    /\ UNCHANGED pureVars

\* ----------------------------------------------------------- ProcessVideo
\* mutant of LoopOrFinalize: the loop condition off by one (<=)
LoopOrFinalize_OffByOne(completed, expected) ==
    IF completed <= expected THEN "Aggregating" ELSE "Finalizing"

\* for completedJobs < expectedJobs { select ... } : where control is after
\* the loop condition has been evaluated
LoopOrFinalize(completed, expected) ==
    IF completed < expected THEN "Aggregating" ELSE "Finalizing"

\* mutant of AfterSubmit: after the last SubmitJob the aggregation loop is
\* skipped
AfterSubmit_SkipsAggregation(i, expected) ==
    IF i + 1 <= expected THEN "Dispatching" ELSE "Finalizing"

\* the range loop over qualities: the next SubmitJob, or the aggregation
AfterSubmit(i, expected) ==
    IF i + 1 <= expected THEN "Dispatching" ELSE LoopOrFinalize(0, expected)

\* downloadFromS3 succeeds: originalSize is the size of the object
DownloadOK ==
    /\ opc = "Downloading"
    /\ s3KeyParts >= MinKeyParts
    /\ downloaded' \in Sources
    /\ opc' = "Probing"
    /\ UNCHANGED << qualities, nextJob, expectedJobs, completedJobs,
                    processedQualities, timedOut, retErr, outcome >>
    /\ UNCHANGED << poolVars, ctxCancelled, storeVars, bgVars, histVars >>
    /\ UNCHANGED totalProcessedSize
    /\ UNCHANGED processDir
    /\ UNCHANGED pureVars

\* downloadFromS3 fails: return nil, "failed to download video"
DownloadFail ==
    /\ opc = "Downloading"
    /\ s3KeyParts >= MinKeyParts
    /\ opc' = "Failed"
    /\ retErr' = "failed to download video"
    /\ UNCHANGED << qualities, nextJob, expectedJobs, completedJobs,
                    processedQualities, timedOut, outcome >>
    /\ UNCHANGED << poolVars, ctxCancelled, storeVars, bgVars, histVars >>
    /\ UNCHANGED << downloaded, totalProcessedSize >>
    /\ processDir' = "removed"    \* defer os.RemoveAll(processDir)
    /\ UNCHANGED pureVars

\* getVideoMetadata succeeds; qualities := defineQualityTargets(metadata);
\* expectedJobs := len(qualities)
ProbeOK ==
    /\ opc = "Probing"
    /\ LET metadata == [Width |-> downloaded.Width, Height |-> downloaded.Height]
           q == defineQualityTargets(metadata)
       IN  /\ qualities' = q
           /\ expectedJobs' = Len(q)
           /\ opc' = IF Len(q) >= 1 THEN "Dispatching"
                     ELSE LoopOrFinalize(0, Len(q))
    /\ nextJob' = 1
    /\ UNCHANGED << completedJobs, processedQualities, timedOut, retErr, outcome >>
    /\ UNCHANGED << poolVars, ctxCancelled, storeVars, bgVars, histVars >>
    /\ UNCHANGED << downloaded, totalProcessedSize >>
    /\ UNCHANGED processDir
    /\ UNCHANGED pureVars

\* getVideoMetadata fails: return nil, "failed to get metadata"
ProbeFail ==
    /\ opc = "Probing"
    /\ opc' = "Failed"
    /\ retErr' = "failed to get metadata"
    /\ UNCHANGED << qualities, nextJob, expectedJobs, completedJobs,
                    processedQualities, timedOut, outcome >>
    /\ UNCHANGED << poolVars, ctxCancelled, storeVars, bgVars, histVars >>
    /\ UNCHANGED << downloaded, totalProcessedSize >>
    /\ processDir' = "removed"    \* defer os.RemoveAll(processDir)
    /\ UNCHANGED pureVars

\* SubmitJob, case wp.jobQueue <- job (outer select)
SubmitSend ==
    /\ opc = "Dispatching"
    /\ ~jobsClosed
    /\ Len(jobQueue) < QueueCapacity(workerCount)
    /\ jobQueue' = Append(jobQueue, nextJob)
    /\ submitted' = submitted \cup {nextJob}
    /\ nextJob' = nextJob + 1
    /\ opc' = AfterSubmit(nextJob, expectedJobs)
    /\ UNCHANGED << qualities, expectedJobs, completedJobs, processedQualities,
                    timedOut, retErr, outcome >>
    /\ UNCHANGED << workerCount, workers, wstate, wjob, wres, resultQueue, stopPc >>
    /\ UNCHANGED << ctxCancelled, storeVars, bgVars, dropped, emitted, observed >>
    /\ UNCHANGED << downloaded, totalProcessedSize >>
    /\ UNCHANGED processDir
    /\ UNCHANGED pureVars

\* SubmitJob, case <-wp.ctx.Done(): "Cannot submit job", the job is skipped
SubmitShuttingDown ==
    /\ opc = "Dispatching"
    /\ poolCancelled
    /\ nextJob' = nextJob + 1
    /\ opc' = AfterSubmit(nextJob, expectedJobs)
    /\ UNCHANGED << qualities, expectedJobs, completedJobs, processedQualities,
                    timedOut, retErr, outcome >>
    /\ UNCHANGED << poolVars, ctxCancelled, storeVars, bgVars, histVars >>
    /\ UNCHANGED << downloaded, totalProcessedSize >>
    /\ UNCHANGED processDir
    /\ UNCHANGED pureVars

\* SubmitJob, default: no case of the outer select is ready
SubmitDefault ==
    /\ opc = "Dispatching"
    /\ ~poolCancelled
    /\ Len(jobQueue) >= QueueCapacity(workerCount)
    /\ opc' = "SubmitWait"
    /\ UNCHANGED << qualities, nextJob, expectedJobs, completedJobs,
                    processedQualities, timedOut, retErr, outcome >>
    /\ UNCHANGED << poolVars, ctxCancelled, storeVars, bgVars, histVars >>
    /\ UNCHANGED << downloaded, totalProcessedSize >>
    /\ UNCHANGED processDir
    /\ UNCHANGED pureVars

\* SubmitJob, inner select, case wp.jobQueue <- job
SubmitAfterWait ==
    /\ opc = "SubmitWait"
    /\ ~jobsClosed
    /\ Len(jobQueue) < QueueCapacity(workerCount)
    /\ jobQueue' = Append(jobQueue, nextJob)
    /\ submitted' = submitted \cup {nextJob}
    /\ nextJob' = nextJob + 1
    /\ opc' = AfterSubmit(nextJob, expectedJobs)
    /\ UNCHANGED << qualities, expectedJobs, completedJobs, processedQualities,
                    timedOut, retErr, outcome >>
    /\ UNCHANGED << workerCount, workers, wstate, wjob, wres, resultQueue, stopPc >>
    /\ UNCHANGED << ctxCancelled, storeVars, bgVars, dropped, emitted, observed >>
    /\ UNCHANGED << downloaded, totalProcessedSize >>
    /\ UNCHANGED processDir
    /\ UNCHANGED pureVars

\* SubmitJob, inner select, case <-time.After(10 * time.Second): the job is dropped
SubmitTimeout ==
    /\ opc = "SubmitWait"
    /\ dropped' = dropped \cup {nextJob}
    /\ nextJob' = nextJob + 1
    /\ opc' = AfterSubmit(nextJob, expectedJobs)
    /\ UNCHANGED << qualities, expectedJobs, completedJobs, processedQualities,
                    timedOut, retErr, outcome >>
    /\ UNCHANGED << poolVars, ctxCancelled, storeVars, bgVars,
                    submitted, emitted, observed >>
    /\ UNCHANGED << downloaded, totalProcessedSize >>
    /\ UNCHANGED processDir
    /\ UNCHANGED pureVars

\* SubmitJob, either select: a send on the job queue after Stop closed it panics
SubmitPanic ==
    /\ opc \in {"Dispatching", "SubmitWait"}
    /\ jobsClosed
    /\ opc' = "Panicked"
    /\ UNCHANGED << qualities, nextJob, expectedJobs, completedJobs,
                    processedQualities, timedOut, retErr, outcome >>
    /\ UNCHANGED << poolVars, ctxCancelled, storeVars, bgVars, histVars >>
    /\ UNCHANGED << downloaded, totalProcessedSize >>
    /\ processDir' = "removed"    \* defer os.RemoveAll(processDir)
    /\ UNCHANGED pureVars

\* the Result that case result := <-ps.workerPool.GetResults() yields:
\* the oldest buffered Result, or the zero value once the stream is closed
\* and drained
Received == IF resultQueue # << >> THEN Head(resultQueue) ELSE ZeroResult

\* mutant of CountResult: only a successful Result is counted
CountResult_SuccessOnly(completed, result) ==
    IF result.Success THEN completed + 1 ELSE completed

\* completedJobs++
CountResult(completed, result) == completed + 1

\* if result.Success { processedQualities = append(processedQualities, ...) }
AppendQuality(pq, result) ==
    IF result.Success THEN Append(pq, result.JobID) ELSE pq

\* mutant of AddSize: the total is overwritten, not added to
AddSize_Overwrite(total, result) ==
    IF result.Success THEN result.OutputSize ELSE total

\* if result.Success { totalProcessedSize += result.OutputSize }
AddSize(total, result) ==
    IF result.Success THEN total + result.OutputSize ELSE total

\* aggregation loop, case result := <-ps.workerPool.GetResults()
AggReceive ==
    /\ opc = "Aggregating"
    /\ resultQueue # << >> \/ resultsClosed
    /\ LET result == Received
       IN  /\ completedJobs' = CountResult(completedJobs, result)
           /\ processedQualities' = AppendQuality(processedQualities, result)
           /\ totalProcessedSize' = AddSize(totalProcessedSize, result)
           /\ observed' = observed \cup {[JobID |-> result.JobID,
                                          Success |-> result.Success,
                                          OutputSize |-> result.OutputSize]}
           /\ opc' = LoopOrFinalize(CountResult(completedJobs, result), expectedJobs)
    /\ resultQueue' = IF resultQueue # << >> THEN Tail(resultQueue) ELSE resultQueue
    /\ UNCHANGED << qualities, nextJob, expectedJobs, timedOut, retErr, outcome >>
    /\ UNCHANGED << workerCount, workers, wstate, wjob, wres, jobQueue, stopPc >>
    /\ UNCHANGED << ctxCancelled, storeVars, bgVars, submitted, dropped, emitted >>
    /\ UNCHANGED downloaded
    /\ UNCHANGED processDir
    /\ UNCHANGED pureVars

\* case <-timeout: ... break -- the break statement ends the select statement
\* it stands in, so control returns to the loop condition
AfterTimeout(completed, expected) == LoopOrFinalize(completed, expected)

\* aggregation loop, case <-timeout (time.After delivers one value)
AggTimeout ==
    /\ opc = "Aggregating"
    /\ ~timedOut
    /\ timedOut' = TRUE
    /\ opc' = AfterTimeout(completedJobs, expectedJobs)
    /\ UNCHANGED << qualities, nextJob, expectedJobs, completedJobs,
                    processedQualities, retErr, outcome >>
    /\ UNCHANGED << poolVars, ctxCancelled, storeVars, bgVars, histVars >>
    /\ UNCHANGED << downloaded, totalProcessedSize >>
    /\ UNCHANGED processDir
    /\ UNCHANGED pureVars

\* mutant of AggCancelled: the case leaves the loop with break instead of
\* returning, so finalization runs
AggCancelled_Breaks ==
    /\ opc = "Aggregating"
    /\ ctxCancelled
    /\ opc' = "Finalizing"
    /\ UNCHANGED << qualities, nextJob, expectedJobs, completedJobs,
                    processedQualities, timedOut, retErr, outcome >>
    /\ UNCHANGED << poolVars, ctxCancelled, storeVars, bgVars, histVars >>
    /\ UNCHANGED << downloaded, totalProcessedSize >>
    /\ UNCHANGED processDir
    /\ UNCHANGED pureVars

\* aggregation loop, case <-ctx.Done(): return nil, "processing cancelled"
AggCancelled ==
    /\ opc = "Aggregating"
    /\ ctxCancelled
    /\ opc' = "Failed"
    /\ retErr' = "processing cancelled"
    /\ UNCHANGED << qualities, nextJob, expectedJobs, completedJobs,
                    processedQualities, timedOut, outcome >>
    /\ UNCHANGED << poolVars, ctxCancelled, storeVars, bgVars, histVars >>
    /\ UNCHANGED << downloaded, totalProcessedSize >>
    /\ processDir' = "removed"    \* defer os.RemoveAll(processDir)
    /\ UNCHANGED pureVars

\* the VideoQuality values of the renditions appended, in order
QualitiesOf(pq) == [i \in 1..Len(pq) |-> qualities[pq[i]]]

\* mutant of Variant: the bitrate is written as it is, in kbps
Variant_BandwidthInKbps(quality) ==
    [Bandwidth |-> parseInt(quality.Bitrate),
     Width |-> quality.Width, Height |-> quality.Height,
     URI |-> quality.Name]

\* one variant block of the master playlist
Variant(quality) ==
    [Bandwidth |-> parseInt(quality.Bitrate) * 1000,
     Width |-> quality.Width, Height |-> quality.Height,
     URI |-> quality.Name]

\* what the file system and S3 do to the master playlist
ManifestIO == {"ok", "writeFailed", "uploadFailed"}

\* mutant of generateMasterPlaylist: no check for an empty list, so a
\* playlist of the header alone is written and uploaded
generateMasterPlaylist_NoEmptyCheck(quals, io) ==
    IF io # "ok"
    THEN [url |-> "", err |-> io, put |-> NoManifest]
    ELSE [url |-> MasterURL, err |-> "",
          put |-> [uploaded |-> TRUE,
                   variants |-> [i \in 1..Len(quals) |-> Variant(quals[i])]]]

\* generateMasterPlaylist: error on an empty list, else one block per
\* quality, written to a temp file and uploaded to .../hls/master.m3u8
generateMasterPlaylist(quals, io) ==
    IF Len(quals) = 0
    THEN [url |-> "", err |-> "no qualities to generate master playlist",
          put |-> NoManifest]
    ELSE IF io # "ok"
    THEN [url |-> "", err |-> io, put |-> NoManifest]
    ELSE [url |-> MasterURL, err |-> "",
          put |-> [uploaded |-> TRUE,
                   variants |-> [i \in 1..Len(quals) |-> Variant(quals[i])]]]

RECURSIVE GCD(_, _)
GCD(a, b) == IF b = 0 THEN a ELSE GCD(b, a % b)

\* float64(totalProcessedSize) / float64(originalSize): the float64 nearest
\* to the quotient, named by the quotient in lowest terms
CompressionRatio(total, original) ==
    LET g == GCD(total, original)
    IN  [num |-> total \div g, den |-> original \div g]

\* mutant of Finalize: an error of generateMasterPlaylist is returned
Finalize_FailsOnManifestError ==
    /\ opc = "Finalizing"
    /\ \E io \in ManifestIO :
         LET m == generateMasterPlaylist(QualitiesOf(processedQualities), io)
         IN  /\ master' = IF m.put.uploaded THEN m.put ELSE master
             /\ outcome' = IF m.err # "" THEN outcome
                           ELSE [Status |-> "completed",
                                 Qualities |-> QualitiesOf(processedQualities),
                                 MasterPlaylistURL |-> m.url,
                                 OriginalSize |-> downloaded.Bytes,
                                 TotalSize |-> totalProcessedSize,
                                 CompressionRatio |->
                                     CompressionRatio(totalProcessedSize,
                                                      downloaded.Bytes)]
             /\ retErr' = IF m.err # "" THEN "failed to generate master playlist"
                          ELSE retErr
             /\ opc' = IF m.err # "" THEN "Failed" ELSE "Completed"
    /\ UNCHANGED << qualities, nextJob, expectedJobs, completedJobs,
                    processedQualities, timedOut >>
    /\ UNCHANGED << poolVars, ctxCancelled, stored, bgVars, histVars >>
    /\ UNCHANGED << downloaded, totalProcessedSize >>
    /\ processDir' = "removed"    \* defer os.RemoveAll(processDir)
    /\ UNCHANGED pureVars

\* ProcessVideo after the loop: the master playlist and the ProcessingResult
Finalize ==
    /\ opc = "Finalizing"
    /\ \E io \in ManifestIO :
         LET m == generateMasterPlaylist(QualitiesOf(processedQualities), io)
         IN  /\ master' = IF m.put.uploaded THEN m.put ELSE master
             /\ outcome' = [Status |-> "completed",
                            Qualities |-> QualitiesOf(processedQualities),
                            MasterPlaylistURL |-> m.url,
                            OriginalSize |-> downloaded.Bytes,
                            TotalSize |-> totalProcessedSize,
                            CompressionRatio |->
                                CompressionRatio(totalProcessedSize,
                                                 downloaded.Bytes)]
    /\ opc' = "Completed"
    /\ UNCHANGED << qualities, nextJob, expectedJobs, completedJobs,
                    processedQualities, timedOut, retErr >>
    /\ UNCHANGED << poolVars, ctxCancelled, stored, bgVars, histVars >>
    /\ UNCHANGED << downloaded, totalProcessedSize >>
    /\ processDir' = "removed"    \* defer os.RemoveAll(processDir)
    /\ UNCHANGED pureVars

\* the caller cancels the context it passed to ProcessVideo; ProcessVideo
\* reads ctx in the aggregation loop only, so a cancellation at any earlier
\* moment is the one observed on entry to the loop
Cancel ==
    /\ opc = "Aggregating"
    /\ ~ctxCancelled
    /\ ctxCancelled' = TRUE
    /\ UNCHANGED << poolVars, orchVars, storeVars, bgVars, histVars >>
    /\ UNCHANGED pureVars

\* ------------------------------------------------ processVideoBackground
\* videoRepo.UpdateVideo(video): the record's status column takes the value
UpdateVideo(status) == status

\* GetVideoByVideoID fails: return
BgGetFail ==
    /\ bgpc = "start"
    /\ bgpc' = "done"
    /\ UNCHANGED << dbStatus, statusLog >>
    /\ UNCHANGED << poolVars, orchVars, ctxCancelled, storeVars, histVars >>
    /\ UNCHANGED pureVars

\* video.Status = "processing"; UpdateVideo; NewProcessingService (which
\* creates and starts the pool); ProcessVideo is entered
BgBegin ==
    /\ bgpc = "start"
    /\ bgpc' = "processing"
    /\ dbStatus' = UpdateVideo("processing")
    /\ statusLog' = Append(statusLog, "processing")
    /\ workers' = Start(workerCount)
    /\ wstate' = [w \in Start(workerCount) |-> "idle"]
    /\ wjob' = [w \in Start(workerCount) |-> 0]
    /\ wres' = [w \in Start(workerCount) |-> ZeroResult]
    /\ opc' = "Downloading"
    /\ UNCHANGED << workerCount, jobQueue, resultQueue, stopPc >>
    /\ UNCHANGED << qualities, nextJob, expectedJobs, completedJobs,
                    processedQualities, timedOut, retErr, outcome >>
    /\ UNCHANGED << ctxCancelled, storeVars, histVars >>
    /\ UNCHANGED << downloaded, totalProcessedSize >>
    /\ processDir' = "present"    \* os.MkdirAll(processDir, 0755)
    /\ UNCHANGED pureVars

\* mutant of TerminalWrites: the error branch forgets the status update
TerminalWrites_Never(err) == << >>

\* what processVideoBackground writes once ProcessVideo has returned:
\* "failed" on an error, nothing (<< >>) on success
TerminalWrites(err) == IF err # "" THEN << "failed" >> ELSE << >>

\* ProcessVideo returned: if err != nil { video.Status = "failed"; UpdateVideo }
BgFinish ==
    /\ bgpc = "processing"
    /\ opc \in {"Completed", "Failed"}
    /\ bgpc' = "done"
    /\ LET w == TerminalWrites(retErr)
       IN  /\ statusLog' = statusLog \o w
           /\ dbStatus' = IF w # << >> THEN UpdateVideo(w[Len(w)]) ELSE dbStatus
    /\ UNCHANGED << poolVars, orchVars, ctxCancelled, storeVars, histVars >>
    /\ UNCHANGED pureVars

\* ------------------------------------------------------------------- Next
Worker(w) ==
    \/ WorkerTake(w)
    \/ WorkerQueueClosed(w)
    \/ WorkerCtxDone(w)
    \/ WorkerProcess(w)
    \/ WorkerSend(w)
    \/ WorkerSendCancelled(w)

Orchestrator ==
    \/ DownloadOK \/ DownloadFail \/ ProbeOK \/ ProbeFail
    \/ SubmitSend \/ SubmitShuttingDown \/ SubmitDefault
    \/ SubmitAfterWait \/ SubmitTimeout \/ SubmitPanic
    \/ AggReceive \/ AggTimeout \/ AggCancelled \/ Finalize

Background == BgGetFail \/ BgBegin \/ BgFinish

Stop == StopCancel \/ StopCloseJobs \/ StopCloseResults

Next ==
    \/ \E w \in 1..(MaxWorkers + 1) : Worker(w)
    \/ Orchestrator
    \/ Background
    \/ Stop
    \/ Cancel

Spec == Init /\ [][Next]_vars

\* Scheduling: every goroutine that can take a step eventually takes one, the
\* timers (10 s in SubmitJob, 15 min in ProcessVideo) eventually fire, and a
\* Stop that was called runs on.  Calling Stop and cancelling the caller's
\* context are up to the environment and not forced.
Fairness ==
    /\ \A w \in 1..(MaxWorkers + 1) : WF_vars(Worker(w))
    /\ WF_vars(Orchestrator)
    /\ WF_vars(Background)
    /\ WF_vars(StopCloseJobs \/ StopCloseResults)

FairSpec == Init /\ [][Next]_vars /\ Fairness

\* The same program and scheduling with the pool size limited to
\* StopWorkers, for the properties of Stop that need fairness.
StopInit == Init /\ workerCount \in 1..StopWorkers

StopSpec == StopInit /\ [][Next]_vars /\ Fairness

\* The service as upload.Service wires it: processVideoBackground passes
\* context.Background(), which is never cancelled, and nothing calls
\* ProcessingService.Shutdown, so Stop never runs.
WorkerRun(w) == WorkerTake(w) \/ WorkerProcess(w) \/ WorkerSend(w)

ProcessVideoRun ==
    \/ DownloadOK \/ DownloadFail \/ ProbeOK \/ ProbeFail
    \/ SubmitSend \/ SubmitDefault \/ SubmitAfterWait \/ SubmitTimeout
    \/ AggReceive \/ AggTimeout \/ Finalize

WiredNext ==
    \/ \E w \in 1..(MaxWorkers + 1) : WorkerRun(w)
    \/ ProcessVideoRun
    \/ Background

\* Scheduling as in Fairness, for the goroutines that run in this wiring.
WiredFairness ==
    /\ \A w \in 1..(MaxWorkers + 1) : WF_vars(WorkerRun(w))
    /\ WF_vars(ProcessVideoRun)
    /\ WF_vars(Background)

WiredSpec == Init /\ [][WiredNext]_vars /\ WiredFairness

\* ------------------------------------------ the ladder policy on its own
\* defineQualityTargets applied to every source of LadderSources; the
\* pipeline stays in its initial state.
LadderInit ==
    /\ PipelineInit
    /\ workerCount = 1
    /\ probe \in LadderSources
    /\ ladder = << >>
    /\ ladderPc = "probed"
    /\ SharedIdle
    /\ UploadIdle
    /\ AbrIdle
    /\ FileIdle

\* qualities := ps.defineQualityTargets(metadata)
DefineLadder ==
    /\ ladderPc = "probed"
    /\ ladder = << >>
    /\ ladder' = defineQualityTargets(probe)
    /\ ladderPc' = "computed"
    /\ UNCHANGED << probe, pipeVars, sharedVars, uploadVars, abrVars, fileVars >>

LadderNext == DefineLadder

LadderSpec == LadderInit /\ [][LadderNext]_vars

\* ------------------------------------- two videos on one ProcessingService
\* ProcessVideo called for two videos at the same time on one
\* ProcessingService, so that both use its one worker pool: the jobs of both
\* go through wp.jobQueue and the Results of both through wp.resultQueue.
\* The 15 minute timer of the aggregation loop changes nothing here (its case
\* returns to the loop condition) and is left out; ctx is never cancelled and
\* Stop is not called.
Videos == {1, 2}

NoJob == [VideoID |-> 0, Quality |-> 0]

SharedInit ==
    /\ PipelineInit
    /\ LadderIdle
    /\ UploadIdle
    /\ AbrIdle
    /\ FileIdle
    /\ shJobQueue = << >>
    /\ shResultQueue = << >>
    /\ shHeld = [w \in 1..workerCount |-> NoJob]
    /\ shPc = [v \in Videos |-> "Dispatching"]
    /\ shNext = [v \in Videos |-> 1]
    /\ \E src \in [Videos -> Sources] :
          shExpected = [v \in Videos |->
              Len(defineQualityTargets([Width  |-> src[v].Width,
                                        Height |-> src[v].Height]))]
    /\ shCompleted = [v \in Videos |-> 0]
    /\ shConsumed = [v \in Videos |-> {}]

\* job := ProcessingJob{VideoID: videoID, Quality: quality, ...}
SharedJob(v) == [VideoID |-> v, Quality |-> shNext[v]]

\* after SubmitJob returned: the next quality, or the aggregation loop
SharedAfterSubmit(v) ==
    /\ shNext' = [shNext EXCEPT ![v] = @ + 1]
    /\ shPc' = [shPc EXCEPT ![v] = AfterSubmit(shNext[v], shExpected[v])]

\* SubmitJob, case wp.jobQueue <- job (outer select)
SharedSubmitSend(v) ==
    /\ shPc[v] = "Dispatching"
    /\ Len(shJobQueue) < QueueCapacity(workerCount)
    /\ shJobQueue' = Append(shJobQueue, SharedJob(v))
    /\ SharedAfterSubmit(v)
    /\ UNCHANGED << shResultQueue, shHeld, shExpected, shCompleted, shConsumed >>
    /\ UNCHANGED << pipeVars, ladderVars, uploadVars, abrVars, fileVars >>

\* SubmitJob, default: the job queue is full
SharedSubmitDefault(v) ==
    /\ shPc[v] = "Dispatching"
    /\ Len(shJobQueue) >= QueueCapacity(workerCount)
    /\ shPc' = [shPc EXCEPT ![v] = "SubmitWait"]
    /\ UNCHANGED << shJobQueue, shResultQueue, shHeld, shNext, shExpected,
                    shCompleted, shConsumed >>
    /\ UNCHANGED << pipeVars, ladderVars, uploadVars, abrVars, fileVars >>

\* SubmitJob, inner select, case wp.jobQueue <- job
SharedSubmitAfterWait(v) ==
    /\ shPc[v] = "SubmitWait"
    /\ Len(shJobQueue) < QueueCapacity(workerCount)
    /\ shJobQueue' = Append(shJobQueue, SharedJob(v))
    /\ SharedAfterSubmit(v)
    /\ UNCHANGED << shResultQueue, shHeld, shExpected, shCompleted, shConsumed >>
    /\ UNCHANGED << pipeVars, ladderVars, uploadVars, abrVars, fileVars >>

\* SubmitJob, inner select, case <-time.After(10 * time.Second): job dropped
SharedSubmitTimeout(v) ==
    /\ shPc[v] = "SubmitWait"
    /\ SharedAfterSubmit(v)
    /\ UNCHANGED << shJobQueue, shResultQueue, shHeld, shExpected,
                    shCompleted, shConsumed >>
    /\ UNCHANGED << pipeVars, ladderVars, uploadVars, abrVars, fileVars >>

\* Worker.start, case job, ok := <-w.jobQueue
SharedWorkerTake(w) ==
    /\ w \in DOMAIN shHeld
    /\ shHeld[w] = NoJob
    /\ shJobQueue # << >>
    /\ shHeld' = [shHeld EXCEPT ![w] = Head(shJobQueue)]
    /\ shJobQueue' = Tail(shJobQueue)
    /\ UNCHANGED << shResultQueue, shPc, shNext, shExpected, shCompleted,
                    shConsumed >>
    /\ UNCHANGED << pipeVars, ladderVars, uploadVars, abrVars, fileVars >>

\* Worker.start: result := w.processJob(job), then case w.resultQueue <- result.
\* processJob copies job.VideoID and job.Quality into the Result; whether the
\* job succeeded plays no part in where its Result goes and is left out.
SharedWorkerSend(w) ==
    /\ w \in DOMAIN shHeld
    /\ shHeld[w] # NoJob
    /\ Len(shResultQueue) < QueueCapacity(workerCount)
    /\ shResultQueue' = Append(shResultQueue,
                               [VideoID |-> shHeld[w].VideoID,
                                Quality |-> shHeld[w].Quality])
    /\ shHeld' = [shHeld EXCEPT ![w] = NoJob]
    /\ UNCHANGED << shJobQueue, shPc, shNext, shExpected, shCompleted,
                    shConsumed >>
    /\ UNCHANGED << pipeVars, ladderVars, uploadVars, abrVars, fileVars >>

\* aggregation loop of video v, case result := <-ps.workerPool.GetResults():
\* the Result is counted whatever its VideoID is
SharedReceive(v) ==
    /\ shPc[v] = "Aggregating"
    /\ shResultQueue # << >>
    /\ LET result == Head(shResultQueue)
       IN  /\ shCompleted' = [shCompleted EXCEPT ![v] = CountResult(@, result)]
           /\ shConsumed' = [shConsumed EXCEPT ![v] = @ \cup {result}]
           /\ shPc' = [shPc EXCEPT ![v] =
                          LoopOrFinalize(CountResult(shCompleted[v], result),
                                         shExpected[v])]
    /\ shResultQueue' = Tail(shResultQueue)
    /\ UNCHANGED << shJobQueue, shHeld, shNext, shExpected >>
    /\ UNCHANGED << pipeVars, ladderVars, uploadVars, abrVars, fileVars >>

\* ProcessVideo of video v after the loop: master playlist and result
SharedFinalize(v) ==
    /\ shPc[v] = "Finalizing"
    /\ shPc' = [shPc EXCEPT ![v] = "Completed"]
    /\ UNCHANGED << shJobQueue, shResultQueue, shHeld, shNext, shExpected,
                    shCompleted, shConsumed >>
    /\ UNCHANGED << pipeVars, ladderVars, uploadVars, abrVars, fileVars >>

SharedProcessVideo(v) ==
    \/ SharedSubmitSend(v)
    \/ SharedSubmitDefault(v)
    \/ SharedSubmitAfterWait(v)
    \/ SharedSubmitTimeout(v)
    \/ SharedReceive(v)
    \/ SharedFinalize(v)

SharedWorker(w) == SharedWorkerTake(w) \/ SharedWorkerSend(w)

SharedNext ==
    \/ \E v \in Videos : SharedProcessVideo(v)
    \/ \E w \in 1..MaxWorkers : SharedWorker(w)

SharedSpec == SharedInit /\ [][SharedNext]_vars

\* ------------------------------------------------------ the upload service
\* Service.UploadVideo called MaxUploads times, and the processVideoBackground
\* goroutine of every accepted upload. The n-th request is given video ID n.
\* A request: the size in the file header, and what the user repository, S3
\* and the video repository answer.
UploadSizes == {MaxUploadBytes - 1, MaxUploadBytes, MaxUploadBytes + 1}

UploadRequests ==
    [Size : UploadSizes, userOK : BOOLEAN, putOK : BOOLEAN, createOK : BOOLEAN]

Rejected(message) ==
    [resp |-> [Success |-> FALSE, Message |-> message],
     put |-> FALSE, created |-> FALSE, spawned |-> FALSE]

\* mutant of UploadVideo: processVideoBackground is started before the
\* record is created
UploadVideo_SpawnBeforeCreate(req) ==
    IF ~req.userOK THEN Rejected("Failed to process user information")
    ELSE IF req.Size > MaxUploadBytes
    THEN Rejected("File size exceeds 500MB limit")
    ELSE IF ~req.putOK THEN Rejected("Failed to upload video to S3")
    ELSE IF ~req.createOK
    THEN [Rejected("Video uploaded to S3 but failed to save metadata")
             EXCEPT !.put = TRUE, !.spawned = TRUE]
    ELSE [resp |-> [Success |-> TRUE, Message |-> "Video uploaded successfully"],
          put |-> TRUE, created |-> TRUE, spawned |-> TRUE]

\* mutant of UploadVideo: the size is checked after the object was put
UploadVideo_CheckAfterPut(req) ==
    IF ~req.userOK THEN Rejected("Failed to process user information")
    ELSE IF ~req.putOK THEN Rejected("Failed to upload video to S3")
    ELSE IF req.Size > MaxUploadBytes
    THEN [Rejected("File size exceeds 500MB limit") EXCEPT !.put = TRUE]
    ELSE IF ~req.createOK
    THEN [Rejected("Video uploaded to S3 but failed to save metadata")
             EXCEPT !.put = TRUE]
    ELSE [resp |-> [Success |-> TRUE, Message |-> "Video uploaded successfully"],
          put |-> TRUE, created |-> TRUE, spawned |-> TRUE]

\* Service.UploadVideo: the response, and whether the object was put, the
\* record created and processVideoBackground started
UploadVideo(req) ==
    IF ~req.userOK THEN Rejected("Failed to process user information")
    ELSE IF req.Size > MaxUploadBytes
    THEN Rejected("File size exceeds 500MB limit")
    ELSE IF ~req.putOK THEN Rejected("Failed to upload video to S3")
    ELSE IF ~req.createOK
    THEN [Rejected("Video uploaded to S3 but failed to save metadata")
             EXCEPT !.put = TRUE]
    ELSE [resp |-> [Success |-> TRUE, Message |-> "Video uploaded successfully"],
          put |-> TRUE, created |-> TRUE, spawned |-> TRUE]

UploadInit ==
    /\ PipelineInit
    /\ workerCount = 1
    /\ LadderIdle
    /\ SharedIdle
    /\ UploadIdle
    /\ AbrIdle
    /\ FileIdle

\* one call of Service.UploadVideo
Upload ==
    /\ Len(upRequests) < MaxUploads
    /\ \E req \in UploadRequests :
          LET video == Len(upRequests) + 1
              out   == UploadVideo(req)
          IN  /\ upRequests' = Append(upRequests, req)
              /\ upResponses' = Append(upResponses, out.resp)
              /\ upObjects' = IF out.put THEN upObjects \cup {video} ELSE upObjects
              /\ upRecords' = Append(upRecords,
                                     IF out.created THEN "uploaded" ELSE "")
              /\ upBg' = Append(upBg, IF out.spawned THEN "start" ELSE "none")
    /\ UNCHANGED << upPools, upLiveWorkers >>
    /\ UNCHANGED << pipeVars, ladderVars, sharedVars, abrVars, fileVars >>

\* processVideoBackground: GetVideoByVideoID fails, return
UploadBgGetFail(video) ==
    /\ video \in DOMAIN upBg
    /\ upBg[video] = "start"
    /\ upBg' = [upBg EXCEPT ![video] = "done"]
    /\ UNCHANGED << upRequests, upResponses, upObjects, upRecords, upPools,
                    upLiveWorkers >>
    /\ UNCHANGED << pipeVars, ladderVars, sharedVars, abrVars, fileVars >>

\* processVideoBackground: status "processing", then NewProcessingService,
\* which creates a worker pool and starts its workers
UploadBgBegin(video) ==
    /\ video \in DOMAIN upBg
    /\ upBg[video] = "start"
    /\ upBg' = [upBg EXCEPT ![video] = "processing"]
    /\ upRecords' = [upRecords EXCEPT ![video] = UpdateVideo("processing")]
    /\ upPools' = upPools + 1
    /\ upLiveWorkers' = upLiveWorkers + Cardinality(Start(PoolSize))
    /\ UNCHANGED << upRequests, upResponses, upObjects >>
    /\ UNCHANGED << pipeVars, ladderVars, sharedVars, abrVars, fileVars >>

\* processVideoBackground: ProcessVideo returned; "failed" is written on an
\* error. Shutdown is not called, so the pool's workers keep waiting on
\* their job queue.
UploadBgFinish(video) ==
    /\ video \in DOMAIN upBg
    /\ upBg[video] = "processing"
    /\ upBg' = [upBg EXCEPT ![video] = "done"]
    /\ \E err \in {"", "failed to download video"} :
          LET w == TerminalWrites(err)
          IN  upRecords' = IF w # << >>
                           THEN [upRecords EXCEPT ![video] = UpdateVideo(w[Len(w)])]
                           ELSE upRecords
    /\ UNCHANGED << upRequests, upResponses, upObjects, upPools, upLiveWorkers >>
    /\ UNCHANGED << pipeVars, ladderVars, sharedVars, abrVars, fileVars >>

UploadBackground(video) ==
    UploadBgGetFail(video) \/ UploadBgBegin(video) \/ UploadBgFinish(video)

UploadNext ==
    \/ Upload
    \/ \E video \in 1..MaxUploads : UploadBackground(video)

UploadSpec == UploadInit /\ [][UploadNext]_vars

\* ------------------------------------------------------ bitrate selection
\* the sequences over S of length at most n
SeqsUpTo(S, n) == UNION { [1..k -> S] : k \in 0..n }

\* bandwidths in bit/s: none, and values around 5/4 of a profile
Bandwidths == {0, 300000, 374999, 375000, 749999, 750000, 1500000, 2000000}

\* the bitrates of the test's manifest, in any order and number
Profiles == {300000, 600000, 1200000}
ProfileLists == SeqsUpTo(Profiles, MaxProfiles)

\* target := int(float64(bandwidth) * 0.8): the float64 nearest 0.8 lies above
\* 4/5 by less than 2^-54, so for 0 <= bandwidth < 2^51 the rounded product
\* is never below 4*bandwidth/5 and never reaches the next integer; the
\* conversion truncates
Target(bandwidth) == (bandwidth * 4) \div 5

\* for _, profile := range profiles { if profile <= target { chosen = profile } }
RECURSIVE FitLoop(_, _, _)
FitLoop(profiles, target, chosen) ==
    IF profiles = << >> THEN chosen
    ELSE FitLoop(Tail(profiles), target,
                 IF Head(profiles) <= target THEN Head(profiles) ELSE chosen)

\* for _, profile := range profiles { if profile < chosen { chosen = profile } }
RECURSIVE LowestLoop(_, _)
LowestLoop(profiles, chosen) ==
    IF profiles = << >> THEN chosen
    ELSE LowestLoop(Tail(profiles),
                    IF Head(profiles) < chosen THEN Head(profiles) ELSE chosen)

\* ThroughputBased.ChooseBitrate
ChooseBitrate(bandwidth, profiles) ==
    LET target == Target(bandwidth)
        chosen == FitLoop(profiles, target, 0)
    IN  IF chosen = 0 /\ Len(profiles) > 0
        THEN LowestLoop(profiles, profiles[1])
        ELSE chosen

AbrInit ==
    /\ PipelineInit
    /\ workerCount = 1
    /\ LadderIdle
    /\ SharedIdle
    /\ UploadIdle
    /\ FileIdle
    /\ abrBandwidth \in Bandwidths
    /\ abrProfiles \in ProfileLists
    /\ abrChosen = 0
    /\ abrPc = "ready"

\* selectedBitrate := algo.ChooseBitrate(bandwidth, profiles)
Choose ==
    /\ abrPc = "ready"
    /\ abrChosen' = ChooseBitrate(abrBandwidth, abrProfiles)
    /\ abrPc' = "done"
    /\ UNCHANGED << abrBandwidth, abrProfiles >>
    /\ UNCHANGED << pipeVars, ladderVars, sharedVars, uploadVars, fileVars >>

AbrNext == Choose

AbrSpec == AbrInit /\ [][AbrNext]_vars

\* ------------------------------------------------------ upload screening
\* videoTypes := []string{...}
videoTypes == << "video/mp4", "video/avi", "video/quicktime",
                 "video/x-msvideo", "video/x-matroska", "video/webm" >>

\* videoExtensions := []string{".mp4", ".avi", ".mov", ".mkv", ".webm"},
\* each string as the sequence of its characters
videoExtensions == << << ".", "m", "p", "4" >>, << ".", "a", "v", "i" >>,
                      << ".", "m", "o", "v" >>, << ".", "m", "k", "v" >>,
                      << ".", "w", "e", "b", "m" >> >>

\* len(filename) > len(ext) && filename[len(filename)-len(ext):] == ext
HasExtension(filename, ext) ==
    /\ Len(filename) > Len(ext)
    /\ SubSeq(filename, Len(filename) - Len(ext) + 1, Len(filename)) = ext

\* isVideoFile: the content type is looked at first, the extension as fallback
isVideoFile(contentType, filename) ==
    \/ \E i \in DOMAIN videoTypes : contentType = videoTypes[i]
    \/ \E i \in DOMAIN videoExtensions : HasExtension(filename, videoExtensions[i])

\* content types of uploads: the video types, and those of the test table
ContentTypes ==
    { videoTypes[i] : i \in DOMAIN videoTypes }
        \cup {"application/octet-stream", "text/plain", "image/jpeg"}

\* file names: a stem (possibly empty) followed by an ending
Stems == SeqsUpTo({"t"}, MaxStem)
Endings ==
    { videoExtensions[i] : i \in DOMAIN videoExtensions }
        \cup { << ".", "t", "x", "t" >>, << ".", "j", "p", "g" >>,
               << ".", "M", "P", "4" >>, << "m", "p", "4" >>, << >> }
Filenames == { stem \o ending : stem \in Stems, ending \in Endings }

FileInit ==
    /\ PipelineInit
    /\ workerCount = 1
    /\ LadderIdle
    /\ SharedIdle
    /\ UploadIdle
    /\ AbrIdle
    /\ vfContentType \in ContentTypes
    /\ vfFilename \in Filenames
    /\ vfAccepted = FALSE
    /\ vfPc = "ready"

\* if !isVideoFile(contentType, header.Filename) { ... reject ... }
Screen ==
    /\ vfPc = "ready"
    /\ vfAccepted' = isVideoFile(vfContentType, vfFilename)
    /\ vfPc' = "done"
    /\ UNCHANGED << vfContentType, vfFilename >>
    /\ UNCHANGED << pipeVars, ladderVars, sharedVars, uploadVars, abrVars >>

FileNext == Screen

FileSpec == FileInit /\ [][FileNext]_vars

\* ================================================================= claims
Range(seq) == { seq[i] : i \in DOMAIN seq }

\* jobs whose Result the aggregation loop received with Success = false
FailedSeen == { r.JobID : r \in { x \in observed : ~x.Success /\ x.JobID # 0 } }
\* jobs whose Result the aggregation loop received with Success = true
SucceededSeen == { r.JobID : r \in { x \in observed : x.Success } }

\* C1: once the 15-minute timer of ProcessVideo has fired (its case of the
\* select was taken), the aggregation loop has ended: ProcessVideo is past
\* the loop, whatever number of Results is outstanding.
C1_TimeoutEndsLoop == timedOut => opc # "Aggregating"

\* C2: when all N jobs of a run were accepted by the job queue (none
\* dropped), then, unless Stop is called or the caller cancels, the
\* aggregation loop eventually has counted exactly N Results, one of each job.
C2_AllResultsObserved ==
    (opc = "Aggregating" /\ dropped = {} /\ submitted = 1..expectedJobs)
      ~> \/ poolCancelled
         \/ ctxCancelled
         \/ /\ completedJobs = expectedJobs
            /\ { r.JobID : r \in observed } = 1..expectedJobs

\* C2 witness: a three-job ladder on a two-worker pool, nothing dropped,
\* stopped or cancelled, and the loop has seen the three Results.
C2_Witness ==
    /\ workerCount = 2
    /\ expectedJobs = 3
    /\ dropped = {} /\ ~poolCancelled /\ ~ctxCancelled
    /\ opc = "Finalizing"
    /\ completedJobs = 3
    /\ { r.JobID : r \in observed } = 1..3

\* C3: the number of Results the aggregation loop has counted never exceeds
\* the number of jobs ProcessVideo has submitted (handed to SubmitJob) for the
\* video, every Result it took off the stream is of a job the queue accepted,
\* and no job ID has more than one Result placed on the result stream.
C3_ResultsAtMostJobs ==
    /\ completedJobs <= nextJob - 1
    /\ completedJobs <= expectedJobs
    /\ { r.JobID : r \in observed } \ {0} \subseteq submitted
    /\ \A j \in JobIDs : emitted[j] <= 1

\* C3 witness: every job of a three-job ladder has put its one Result on the
\* stream and the loop has counted them all.
C3_Witness ==
    /\ expectedJobs = 3
    /\ completedJobs = 3
    /\ \A j \in 1..3 : emitted[j] = 1

\* C4: a job whose Result has Success = false is not in the outcome's
\* rendition list nor in the master manifest, but it is counted: every Result
\* received adds one to completedJobs, and when ProcessVideo returns an
\* outcome, completedJobs has reached expectedJobs and the status is
\* "completed".
C4_FailedExcludedButCounted ==
    /\ \A j \in FailedSeen :
         /\ j \notin Range(processedQualities)
         /\ qualities[j] \notin Range(outcome.Qualities)
         /\ \A v \in Range(master.variants) : v.URI # qualities[j].Name
    /\ ~resultsClosed => completedJobs = Cardinality(observed)
    /\ opc = "Completed" =>
         /\ outcome.Status = "completed"
         /\ completedJobs = expectedJobs

\* C4 witness: ProcessVideo returned an outcome with a manifest after one
\* rendition failed and another succeeded.
C4_Witness ==
    /\ opc = "Completed"
    /\ ~poolCancelled
    /\ FailedSeen # {}
    /\ master.uploaded
    /\ Len(outcome.Qualities) >= 1

\* C5: when background processing has ended, exactly two statuses were
\* written: "processing" at the start and one terminal status at the end,
\* "completed" if ProcessVideo returned an outcome, "failed" if it returned
\* an error; the record holds that terminal status.
C5_TerminalStatusWritten ==
    (bgpc = "done" /\ opc \in {"Completed", "Failed"}) =>
        LET terminal == IF opc = "Completed" THEN "completed" ELSE "failed"
        IN  /\ statusLog = << "processing", terminal >>
            /\ dbStatus = terminal

C7_ManifestOnlyUploadedRenditions ==
    /\ outcome.MasterPlaylistURL # "" =>
         /\ master.uploaded
         /\ \A v \in Range(master.variants) :
              \E j \in SucceededSeen :
                  /\ qualities[j].Name = v.URI
                  /\ stored[j] = "all"
    /\ \A w \in workers : wres[w].Success => stored[wres[w].JobID] = "all"
    /\ \A r \in Range(resultQueue) : r.Success => stored[r.JobID] = "all"
    /\ \A j \in SucceededSeen : stored[j] = "all"

\* C7 witness: a manifest URL is reported while one rendition of the video
\* is only partly in the bucket.
C7_Witness ==
    /\ outcome.MasterPlaylistURL # ""
    /\ Len(master.variants) >= 2
    /\ \E j \in 1..expectedJobs : stored[j] = "partial"

\* C8: at no time are more jobs being transcoded than the worker count the
\* pool was created with.
C8_AtMostNTranscoding ==
    Cardinality({ w \in workers : wstate[w] = "processing" }) <= workerCount

\* C8 witness: a pool of two workers transcodes two jobs while a third job
\* waits in the queue.
C8_Witness ==
    /\ workerCount = 2
    /\ Cardinality({ w \in workers : wstate[w] = "processing" }) = 2
    /\ jobQueue # << >>

\* C9: a failed job gives a Result with Success = false and the error text;
\* the worker that holds such a Result delivers it and returns to waiting for
\* the next job (it leaves only when the pool is shutting down); and a worker
\* finishing a job, failed or not, leaves the Results already on the stream
\* and the other workers' jobs and Results as they are.
C9_FailureIsJobScoped ==
    /\ [](\A w \in workers :
            wstate[w] = "sending" =>
              /\ wres[w].JobID = wjob[w]
              /\ wres[w].Success <=> wres[w].Error = ""
              /\ wres[w].Success <=> stored[wjob[w]] = "all")
    /\ [][\A w \in workers :
            (wstate[w] = "sending" /\ ~wres[w].Success /\ wstate'[w] # "sending")
              => \/ /\ wstate'[w] = "idle"
                    /\ resultQueue' = Append(resultQueue, wres[w])
                 \/ /\ poolCancelled
                    /\ wstate'[w] = "exited"]_vars
    /\ [][\A w \in workers :
            (wstate[w] = "processing" /\ wstate'[w] = "sending")
              => /\ resultQueue' = resultQueue
                 /\ \A v \in workers \ {w} :
                      /\ wstate'[v] = wstate[v]
                      /\ wjob'[v] = wjob[v]
                      /\ wres'[v] = wres[v]]_vars

\* C9 witness: the only worker of a pool has delivered the Result of a
\* failed job and is transcoding the next job while the pool runs on.
C9_Witness ==
    /\ workerCount = 1
    /\ workers = {1}
    /\ ~poolCancelled
    /\ wstate[1] = "processing"
    /\ \E i \in DOMAIN resultQueue :
         ~resultQueue[i].Success /\ resultQueue[i].Error # ""

\* C10: after SubmitJob has dropped a job, the aggregation of the video ends
\* (by the global timeout, or by cancellation) and ProcessVideo goes on to
\* finalization, or returns the cancellation error.
C10_DropEndsByTimeout ==
    (opc = "Aggregating" /\ dropped # {})
      ~> (opc \in {"Finalizing", "Completed", "Failed"})

\* C11 (as the code has it): the cancellation case of the aggregation loop is
\* ready whenever the context is cancelled, whatever the workers are doing;
\* taking it returns "processing cancelled" at once: no Result is received,
\* no job is waited for, no outcome is produced and no master manifest is
\* built or uploaded. Leaving the loop without having received a Result
\* happens in no other way.
C11_CancelReturnsAtOnce ==
    /\ []((opc = "Aggregating" /\ ctxCancelled) => ENABLED AggCancelled)
    /\ [](retErr = "processing cancelled" =>
            /\ opc = "Failed"
            /\ outcome = NoOutcome
            /\ ~master.uploaded)
    /\ [][(opc = "Aggregating" /\ opc' # "Aggregating"
              /\ completedJobs' = completedJobs) =>
            /\ ctxCancelled
            /\ opc' = "Failed"
            /\ retErr' = "processing cancelled"
            /\ outcome' = NoOutcome
            /\ UNCHANGED << poolVars, storeVars, processedQualities, observed >>]_vars

\* ProcessVideo returned the cancellation error while a job was being
\* transcoded, another was still queued and a Result was left on the stream
C11_Witness ==
    /\ retErr = "processing cancelled"
    /\ opc = "Failed"
    /\ \E w \in workers : wstate[w] = "processing"
    /\ jobQueue # << >>
    /\ resultQueue # << >>

\* C11 (as stated): once the context is cancelled during aggregation,
\* ProcessVideo receives no further Result and ends with the cancellation
\* error: it never goes on to finalization.
C11_CancelStopsDraining ==
    ctxCancelled =>
        /\ opc \in {"Aggregating", "Failed"}
        /\ outcome = NoOutcome
        /\ ~master.uploaded

\* C12 (as the code has it): when aggregation ends with zero successful
\* renditions, ProcessVideo returns no error and an outcome with status
\* "completed" and an empty rendition list; no master manifest is built or
\* uploaded, and the outcome's MasterPlaylistURL is empty.
C12_NoRenditionsNoManifest ==
    (opc = "Completed" /\ SucceededSeen = {}) =>
        /\ retErr = ""
        /\ outcome.Status = "completed"
        /\ outcome.Qualities = << >>
        /\ outcome.MasterPlaylistURL = ""
        /\ master = NoManifest

\* ProcessVideo completed after every job of a three-rendition ladder failed
C12_Witness ==
    /\ opc = "Completed"
    /\ SucceededSeen = {}
    /\ FailedSeen = {1, 2, 3}
    /\ outcome.Status = "completed"

\* C12 (as stated): a run that completes with zero successful renditions has
\* a master manifest in the store, holding the header and no variant block.
C12_EmptyManifestSynthesized ==
    (opc = "Completed" /\ SucceededSeen = {}) =>
        /\ outcome.Status = "completed"
        /\ outcome.Qualities = << >>
        /\ master.uploaded
        /\ master.variants = << >>

\* C13: finalization never fails. When writing or uploading the master
\* manifest failed (no manifest is in the store after finalization),
\* ProcessVideo still returns no error and an outcome with status
\* "completed", the renditions that succeeded, in the order received, and an
\* empty MasterPlaylistURL.
C13_ManifestFailureTolerated ==
    /\ [][opc = "Finalizing" => (opc' \in {"Finalizing", "Completed"} /\ retErr' = "")]_vars
    /\ []((opc = "Completed" /\ ~master.uploaded) =>
            /\ retErr = ""
            /\ outcome.Status = "completed"
            /\ outcome.MasterPlaylistURL = ""
            /\ Len(outcome.Qualities) = Cardinality(SucceededSeen)
            /\ \A i \in 1..Len(outcome.Qualities) :
                   /\ processedQualities[i] \in SucceededSeen
                   /\ outcome.Qualities[i] = qualities[processedQualities[i]])

\* two renditions succeeded, the manifest could not be written or uploaded,
\* and ProcessVideo completed with both renditions and no manifest URL
C13_Witness ==
    /\ opc = "Completed"
    /\ ~master.uploaded
    /\ Cardinality(SucceededSeen) = 2
    /\ Len(outcome.Qualities) = 2
    /\ outcome.MasterPlaylistURL = ""
    /\ retErr = ""

\* C14: the list of successful renditions grows by the rendition of each
\* successful Result at the moment the loop receives it, at the end, and
\* changes in no other way; an uploaded master manifest has exactly one
\* variant block per successful rendition, in that order, with BANDWIDTH the
\* rendition's kbps times 1000 and RESOLUTION its width x height.
C14_ManifestVariants ==
    /\ [][processedQualities' =
            IF /\ opc = "Aggregating"
               /\ completedJobs' = completedJobs + 1
               /\ resultQueue # << >>
               /\ Head(resultQueue).Success
            THEN Append(processedQualities, Head(resultQueue).JobID)
            ELSE processedQualities]_vars
    /\ [](master.uploaded =>
            /\ Len(master.variants) = Len(processedQualities)
            /\ Len(master.variants) = Cardinality(SucceededSeen)
            /\ Range(processedQualities) = SucceededSeen
            /\ \A i \in 1..Len(master.variants) :
                   LET q == qualities[processedQualities[i]]
                       v == master.variants[i]
                   IN  /\ v.URI = q.Name
                       /\ v.Bandwidth = q.Bitrate.digits * 1000
                       /\ v.Width = q.Width
                       /\ v.Height = q.Height)

\* a manifest of three variants in completion order 480p, 720p, 240p, which
\* is not the ladder order; the 720p block has BANDWIDTH 3000000 and
\* RESOLUTION 1280x720
C14_Witness ==
    /\ master.uploaded
    /\ processedQualities = << 2, 3, 1 >>
    /\ Len(master.variants) = 3
    /\ master.variants[1].URI = "480p"
    /\ master.variants[2] = [Bandwidth |-> 3000000, Width |-> 1280,
                              Height |-> 720, URI |-> "720p"]
    /\ master.variants[3].URI = "240p"

\* ---------------------------------------------------- ladder claims
Rendition(name, w, h, kbps) ==
    [Name |-> name, Height |-> h, Width |-> w, Bitrate |-> Kbps(kbps)]

HD1080 == [Width |-> 1920, Height |-> 1080]
SD360  == [Width |-> 640,  Height |-> 360]

\* C15 (as the code has it): for a 1920x1080 source the ladder is exactly
\* [240p(426x240, 500k), 480p(852x480, 1500k), 720p(1280x720, 3000k),
\* 1080p(1920x1080, 5000k)], with no "original" entry: 480 * 1920 / 1080 is
\* 853.33, truncated to 853 and then decremented to the even 852.
C15_Ladder1080 ==
    (probe = HD1080 /\ ladder # << >>) =>
        ladder = << Rendition("240p", 426, 240, 500),
                    Rendition("480p", 852, 480, 1500),
                    Rendition("720p", 1280, 720, 3000),
                    Rendition("1080p", 1920, 1080, 5000) >>

\* the ladder of the 1920x1080 source has been computed
C15_Witness ==
    /\ probe = HD1080
    /\ Len(ladder) = 4
    /\ ladder[2].Name = "480p"
    /\ ladder[2].Width = 852

\* C15 (as stated): for a 1920x1080 source the ladder is exactly
\* [240p(426x240, 500k), 480p(854x480, 1500k), 720p(1280x720, 3000k),
\* 1080p(1920x1080, 5000k)], with no "original" entry.
C15_Ladder1080AsStated ==
    (probe = HD1080 /\ ladder # << >>) =>
        ladder = << Rendition("240p", 426, 240, 500),
                    Rendition("480p", 854, 480, 1500),
                    Rendition("720p", 1280, 720, 3000),
                    Rendition("1080p", 1920, 1080, 5000) >>

\* C16: for a 640x360 source the ladder is exactly
\* [240p(426x240, 500k), original(640x360, 8000k)].
C16_Ladder360 ==
    (probe = SD360 /\ ladder # << >>) =>
        ladder = << Rendition("240p", 426, 240, 500),
                    Rendition("original", 640, 360, 8000) >>

\* the ladder of the 640x360 source has been computed: two renditions, the
\* second one the "original"
C16_Witness ==
    /\ probe = SD360
    /\ Len(ladder) = 2
    /\ ladder[2].Name = "original"

\* C17: every rendition of every ladder, the "original" entry included, has
\* an even width and an even height.
C17_AllDimensionsEven ==
    \A i \in 1..Len(ladder) :
        /\ ladder[i].Width % 2 = 0
        /\ ladder[i].Height % 2 = 0

TierHeights == { baseQualities[i].height : i \in 1..Len(baseQualities) }
TierOf(h) == CHOOSE i \in 1..Len(baseQualities) : baseQualities[i].height = h
InLadder(name, h) ==
    Cardinality({ i \in 1..Len(ladder) :
                    ladder[i].Name = name /\ ladder[i].Height = h })
IncludedTiers == { h \in TierHeights : h <= probe.Height }

\* C18: in every computed ladder, each tier of {240, 480, 720, 1080} occurs
\* once when its height is at most the source height and not at all
\* otherwise; the "original" rendition (source height, 8000k) occurs once, as
\* the last entry, when no included tier has the source height, and not at
\* all otherwise; nothing else is in the ladder; and for a source height
\* below 240 the ladder is the "original" rendition alone.
C18_LadderMembership ==
    ladder # << >> =>
        /\ \A h \in TierHeights :
               InLadder(baseQualities[TierOf(h)].name, h)
                   = IF h <= probe.Height THEN 1 ELSE 0
        /\ InLadder("original", probe.Height)
               = IF probe.Height \in IncludedTiers THEN 0 ELSE 1
        /\ \A i \in 1..Len(ladder) :
               ladder[i].Name = "original" =>
                   /\ i = Len(ladder)
                   /\ ladder[i].Height = probe.Height
                   /\ ladder[i].Bitrate = Kbps(8000)
        /\ Len(ladder) = Cardinality(IncludedTiers)
                           + (IF probe.Height \in IncludedTiers THEN 0 ELSE 1)
        /\ probe.Height < 240 =>
               /\ Len(ladder) = 1
               /\ ladder[1].Name = "original"

\* ladders computed for a source exactly as high as a tier (no "original"),
\* for one between two tiers, and for one below the lowest tier
C18_Witness ==
    /\ ladder # << >>
    /\ \/ probe.Height = 720 /\ Len(ladder) = 3
       \/ probe.Height = 721 /\ Len(ladder) = 4 /\ ladder[4].Name = "original"
       \/ probe.Height = 239 /\ Len(ladder) = 1 /\ ladder[1].Name = "original"

\* C19: every computed ladder is ordered by strictly ascending height, and
\* no rendition in it is higher than the source.
C19_AscendingWithinSource ==
    /\ \A i, j \in 1..Len(ladder) : i < j => ladder[i].Height < ladder[j].Height
    /\ \A i \in 1..Len(ladder) : ladder[i].Height <= probe.Height

\* a computed ladder of three tiers and the "original" above them
C19_Witness ==
    /\ Len(ladder) = 4
    /\ ladder[4].Name = "original"
    /\ ladder[3].Height = 720
    /\ probe.Height = 1079

\* the positions of the renditions of a ladder that are as high as the source
AtSourceHeight(q, metadata) ==
    { i \in 1..Len(q) : q[i].Height = metadata.Height }

\* C33: for every source of positive height the ladder is not empty, so
\* expectedJobs is at least 1, and exactly one of its renditions has the
\* height of the source: a tier or the "original" entry, never both.
C33_OneRenditionAtSourceHeight ==
    (ladderPc = "computed" /\ probe.Height > 0) =>
        /\ Len(ladder) >= 1
        /\ Cardinality(AtSourceHeight(ladder, probe)) = 1
        /\ \A i, j \in 1..Len(ladder) :
               (ladder[i].Name = "original" /\ j # i) =>
                   ladder[j].Height # probe.Height

\* a ladder computed for a source exactly as high as the 720p tier: that
\* tier stands for the source and there is no "original" entry
C33_Witness ==
    /\ ladderPc = "computed"
    /\ probe.Height = 720
    /\ Len(ladder) = 3
    /\ ladder[3].Name = "720p"
    /\ AtSourceHeight(ladder, probe) = {3}

\* ---------------------------------------------------- outcome totals
RECURSIVE SumSizes(_)
SumSizes(S) ==
    IF S = {} THEN 0
    ELSE LET r == CHOOSE x \in S : TRUE
         IN  r.OutputSize + SumSizes(S \ {r})

\* C20: in the outcome of ProcessVideo, TotalSize is the sum of OutputSize
\* over exactly the successful Results the aggregation loop received,
\* OriginalSize is the size of the downloaded object, and CompressionRatio
\* is TotalSize divided by OriginalSize (num / den = TotalSize /
\* OriginalSize); for 40,000,000 over 100,000,000 it is 2/5 = 0.4.
C20_TotalsAndRatio ==
    opc = "Completed" =>
        /\ outcome.TotalSize = SumSizes({ r \in observed : r.Success })
        /\ outcome.OriginalSize = downloaded.Bytes
        /\ LET c == outcome.CompressionRatio
           IN  /\ c.den > 0
               /\ outcome.OriginalSize % c.den = 0
               /\ outcome.TotalSize = (outcome.OriginalSize \div c.den) * c.num
        /\ (outcome.TotalSize = 40000000 /\ outcome.OriginalSize = 100000000) =>
               outcome.CompressionRatio = [num |-> 2, den |-> 5]

\* the 100,000,000-byte source: 240p and 480p succeeded with 10,000,000 and
\* 30,000,000 bytes, 720p failed and was received too; the ratio is 2/5
C20_Witness ==
    /\ opc = "Completed"
    /\ SucceededSeen = {1, 2}
    /\ FailedSeen = {3}
    /\ outcome.OriginalSize = 100000000
    /\ outcome.TotalSize = 40000000
    /\ outcome.CompressionRatio = [num |-> 2, den |-> 5]

\* ------------------------------------------------------ SubmitJob, Stop
\* the renditions whose job is in the job queue or held by a worker
Queued == Range(jobQueue)
Held   == { wjob[w] : w \in workers } \ {0}

\* C23: a SubmitJob call with room in the job queue enqueues the job at once;
\* with a full queue it goes on to the bounded wait, which ends with the job
\* either enqueued or dropped; no step of SubmitJob ends otherwise than by
\* returning; and no job is in the queue or with the workers twice.
C23_SubmitJobProtocol ==
    /\ [][(opc \in {"Dispatching", "SubmitWait"}
              /\ << opc, nextJob >>' # << opc, nextJob >>) =>
            LET room     == Len(jobQueue) < QueueCapacity(workerCount)
                enqueued == /\ jobQueue' = Append(jobQueue, nextJob)
                            /\ submitted' = submitted \cup {nextJob}
                given_up == /\ jobQueue' = jobQueue
                            /\ dropped' = dropped \cup {nextJob}
                returned == /\ nextJob' = nextJob + 1
                            /\ opc' = AfterSubmit(nextJob, expectedJobs)
            IN  /\ (opc = "Dispatching" /\ room) => (enqueued /\ returned)
                /\ (opc = "Dispatching" /\ ~room) =>
                       (opc' = "SubmitWait" /\ UNCHANGED << nextJob, jobQueue >>)
                /\ opc = "SubmitWait" =>
                       (returned /\ (enqueued \/ given_up))]_vars
    /\ [](/\ \A i, j \in 1..Len(jobQueue) : i # j => jobQueue[i] # jobQueue[j]
          /\ Queued \cap Held = {}
          /\ \A w1, w2 \in workers :
                 (w1 # w2 /\ wjob[w1] # 0) => wjob[w1] # wjob[w2]
          /\ submitted \cap dropped = {})

\* the jobs a worker has taken from the job queue
Started == submitted \ Queued

\* C24: once Stop has returned, every worker has exited and the Result of
\* every job a worker had started has been delivered to the result stream;
\* the result stream is closed only then.
C24_StopLosesNoResult ==
    resultsClosed =>
        /\ \A w \in workers : wstate[w] = "exited"
        /\ \A j \in Started : emitted[j] = 1

\* C29: SubmitJob never sends on the job queue after Stop has closed it: the
\* process never dies of that send, and from close(wp.jobQueue) on no job
\* enters the queue.
C29_NoSendOnClosedQueue ==
    /\ [](opc # "Panicked")
    /\ [][jobsClosed => submitted' = submitted]_vars

\* ------------------------------------------------------------ phases
\* the phase of the run that a position of ProcessVideo belongs to; the
\* bounded wait of SubmitJob is part of Dispatching, and a run that died in
\* SubmitJob died in Dispatching
Phase(pc) == IF pc \in {"SubmitWait", "Panicked"} THEN "Dispatching" ELSE pc

\* the phases that may follow a phase
NextPhases(phase) ==
    CASE phase = "NotStarted"  -> {"Downloading"}
      [] phase = "Downloading" -> {"Probing", "Failed"}
      [] phase = "Probing"     -> {"Dispatching", "Failed"}
      [] phase = "Dispatching" -> {"Aggregating"}
      [] phase = "Aggregating" -> {"Finalizing", "Failed"}
      [] phase = "Finalizing"  -> {"Completed"}
      [] OTHER                 -> {}

\* C28: a ProcessVideo run moves from a phase only to the next one of
\* Downloading, Probing, (ladder computed) Dispatching, Aggregating,
\* Finalizing, Completed, or to Failed, and never back; the ladder is computed
\* in the step that leaves Probing and jobs are submitted only after it,
\* during Dispatching; the master manifest is uploaded only in the step from
\* Finalizing to Completed, so at most once and after the aggregation.
C28_PhaseOrder ==
    /\ [][Phase(opc') # Phase(opc) => Phase(opc') \in NextPhases(Phase(opc))]_vars
    /\ [][qualities' # qualities =>
             (opc = "Probing" /\ Phase(opc') = "Dispatching")]_vars
    /\ [][(submitted' # submitted \/ dropped' # dropped \/ nextJob' > nextJob) =>
             (Phase(opc) = "Dispatching" /\ qualities # << >>)]_vars
    /\ [][master' # master =>
             (opc = "Finalizing" /\ opc' = "Completed" /\ master = NoManifest)]_vars
    /\ [](opc \in {"NotStarted", "Downloading", "Probing"} =>
             (qualities = << >> /\ submitted = {} /\ dropped = {}))
    /\ [](master.uploaded => opc = "Completed")

C28_Witness ==
    /\ opc = "Completed"
    /\ master.uploaded
    /\ submitted = {1, 2}
    /\ dropped = {3}
    /\ timedOut

\* the jobs a worker is transcoding: generateHLSStreamWorker reads job.InputPath
Transcoding == { wjob[w] : w \in { x \in workers : wstate[x] = "processing" } }

\* C30: while the process runs and a job of the video is queued or being
\* transcoded, the download directory with the source file is in place.
C30_InputKeptWhileJobsLive ==
    (Running /\ (Queued \cup Transcoding) # {}) => processDir = "present"

\* ------------------------------------------------ bitrate selection claims
Highest(S) == CHOOSE x \in S : \A y \in S : y <= x
Lowest(S)  == CHOOSE x \in S : \A y \in S : x <= y

\* C25: ChooseBitrate returns the highest profile that is at most 80% of the
\* bandwidth, whatever the order of the list; the lowest profile when none is
\* that low; 0 for an empty list.
C25_HighestFitting ==
    abrPc = "done" =>
        LET offered == Range(abrProfiles)
            fitting == { p \in offered : 5 * p <= 4 * abrBandwidth }
        IN  abrChosen = IF offered = {} THEN 0
                        ELSE IF fitting # {} THEN Highest(fitting)
                        ELSE Lowest(offered)

\* ------------------------------------------------ upload screening claims
\* filename ends with ext
EndsWith(filename, ext) ==
    /\ Len(filename) >= Len(ext)
    /\ SubSeq(filename, Len(filename) - Len(ext) + 1, Len(filename)) = ext

\* C26: isVideoFile is true if and only if the content type is one of the
\* accepted video types or the file name ends with one of the accepted
\* extensions.
C26_VideoFileIff ==
    vfPc = "done" =>
        (vfAccepted <=>
            \/ vfContentType \in { videoTypes[i] : i \in DOMAIN videoTypes }
            \/ \E i \in DOMAIN videoExtensions :
                   EndsWith(vfFilename, videoExtensions[i]))

\* ------------------------------------------------------------ Stop returns
\* C31: once Stop has been called it returns: every worker, whether idle,
\* transcoding or blocked sending a Result on a full result stream that
\* nobody drains, exits, and the wait for the workers ends.  (The process
\* dying of the panic of C29 ends Stop along with every goroutine.)
C31_StopReturns ==
    poolCancelled ~> (resultsClosed \/ ~Running)

\* Stop has returned although a worker held a Result it could not deliver:
\* the result stream is full, ProcessVideo has returned, and the Result of a
\* started job was never sent
C31_Witness ==
    /\ resultsClosed
    /\ Running
    /\ opc = "Failed"
    /\ Len(resultQueue) = QueueCapacity(workerCount)
    /\ \E j \in Started : emitted[j] = 0
    /\ \A w \in workers : wstate[w] = "exited"

\* ------------------------------------------------ shared pool claims
\* C21: when the ProcessVideo runs of two videos use the same worker pool,
\* every Result a video's aggregation loop receives carries that video's ID.
C21_OwnResultsOnly ==
    \A v \in DOMAIN shConsumed :
        \A result \in shConsumed[v] : result.VideoID = v

\* ------------------------------------------------ upload service claims
\* C22: however many videos have been processed, there is one worker pool
\* and the number of live workers equals the configured worker count.
C22_OnePoolForAllVideos ==
    /\ upPools <= 1
    /\ upLiveWorkers <= PoolSize

\* C27: a request whose file is larger than 500MB is answered with
\* Success = false, and because of it no object is put to S3, no video
\* record is created and no processVideoBackground is started.
C27_OversizeRejectedCleanly ==
    \A video \in DOMAIN upRequests :
        upRequests[video].Size > MaxUploadBytes =>
            /\ ~upResponses[video].Success
            /\ video \notin upObjects
            /\ upRecords[video] = ""
            /\ upBg[video] = "none"

\* a file of 500MB + 1 byte was rejected for its size, with S3 and both
\* repositories working, and a file of exactly 500MB was accepted, stored
\* and handed to processVideoBackground
C27_Witness ==
    /\ Len(upRequests) = 2
    /\ upRequests[1].Size = MaxUploadBytes + 1
    /\ upRequests[1].userOK /\ upRequests[1].putOK /\ upRequests[1].createOK
    /\ upResponses[1] = [Success |-> FALSE,
                          Message |-> "File size exceeds 500MB limit"]
    /\ upObjects = {2}
    /\ upRequests[2].Size = MaxUploadBytes
    /\ upResponses[2].Success
    /\ upBg[2] = "processing"

\* C32: processVideoBackground is started for an upload only when its file
\* is in object storage and its record exists, created with status
\* "uploaded", which is the status the goroutine finds; an upload whose user
\* lookup, storage upload or record creation failed is answered with
\* Success = false and no processing is started for it, then or later.
C32_ProcessingOnlyAfterStored ==
    /\ [](\A video \in DOMAIN upRequests :
            /\ upBg[video] # "none" =>
                  /\ video \in upObjects
                  /\ upRecords[video] # ""
                  /\ upResponses[video].Success
            /\ upBg[video] = "start" => upRecords[video] = "uploaded"
            /\ (~upRequests[video].userOK \/ ~upRequests[video].putOK
                   \/ ~upRequests[video].createOK) =>
                  /\ ~upResponses[video].Success
                  /\ upBg[video] = "none"
                  /\ upRecords[video] = "")
    /\ [][\A video \in DOMAIN upRequests :
            /\ upBg'[video] # upBg[video] => upBg[video] # "none"
            /\ upRecords'[video] # upRecords[video] => upBg[video] # "none"]_vars

\* an upload whose record could not be created left its object in storage
\* and started nothing, and a later upload was stored, recorded and is being
\* processed
C32_Witness ==
    /\ Len(upRequests) = 2
    /\ upRequests[1].userOK /\ upRequests[1].putOK /\ ~upRequests[1].createOK
    /\ upRequests[1].Size <= MaxUploadBytes
    /\ upResponses[1] = [Success |-> FALSE,
                          Message |-> "Video uploaded to S3 but failed to save metadata"]
    /\ upObjects = {1, 2}
    /\ upBg = << "none", "processing" >>
    /\ upRecords = << "", "processing" >>
    /\ upResponses[2].Success

====
